---- MODULE Spec2Model ----
(***************************************************************************)
(* A model of the circuit engine of nannou_sketches (src/src/circuits.rs): *)
(* a DAG of boolean gates (petgraph DiGraph<Gate, Value>), its            *)
(* construction functions, its rank and update-order computations and its *)
(* signal propagation, together with the drivers of its unit tests.       *)
(***************************************************************************)
EXTENDS Integers, Sequences, FiniteSets, TLC

VARIABLES
    graph,     \* the Circuit: [nodes: Seq(Gate), edges: Seq([source, target, weight])]
    order,     \* the caller's stored result of update_order() (tests: `let order`)
    passes,    \* update_signals_once calls completed since the last set_input / construction
    panicked,  \* "none", or the message of the panic that ended the program
    locals     \* the driving test's loop variables

vars == <<graph, order, passes, panicked, locals>>

\* Bound on the number of nodes (MetaInput included) of a freely built circuit.
MaxNodes == 4

NoPanic == "none"
\* The caller's locals before it sets any: the loop variables a_, b_, c_in_ of
\* the tests, and the query results ranks and flipped.
NoLocals ==
    [a_ |-> 0, b_ |-> 0, c_in_ |-> 0, ranked |-> FALSE, ranks |-> <<>>, flipped |-> <<>>]

Reverse(s) == [i \in 1..Len(s) |-> s[Len(s) + 1 - i]]

Max(S) == CHOOSE x \in S : \A y \in S : y <= x

-----------------------------------------------------------------------------
(* The graph: node handle h (a NodeIndex) is h = 0, 1, ... in creation     *)
(* order and its weight is nodes[h + 1]; edges are kept in creation order. *)

Gate == {"Or", "And", "Xor", "Not", "Output", "Input", "MetaInput"}

meta_input == 0

node_count(g) == Len(g.nodes)

node_indices(g) == 0 .. (Len(g.nodes) - 1)

Kind(g, n) == g.nodes[n + 1]

add_node(g, gate) == [g EXCEPT !.nodes = Append(@, gate)]

find_edge(g, a, b) ==
    {i \in DOMAIN g.edges : g.edges[i].source = a /\ g.edges[i].target = b}

\* Sensitivity variant of update_edge: petgraph add_edge, a parallel edge
\* even when a -> b exists.
add_edge(g, a, b, w) ==
    [g EXCEPT !.edges = Append(@, [source |-> a, target |-> b, weight |-> w])]

\* Sensitivity variant of update_edge: the weight is also written to every
\* edge there was from a.
update_edge_reset(g, a, b, w) ==
    LET reset == [i \in DOMAIN g.edges |->
                     IF g.edges[i].source = a THEN [g.edges[i] EXCEPT !.weight = w]
                     ELSE g.edges[i]]
    IN  IF find_edge(g, a, b) # {}
        THEN [g EXCEPT !.edges = reset]
        ELSE [g EXCEPT !.edges = Append(reset, [source |-> a, target |-> b, weight |-> w])]

\* petgraph update_edge: overwrite the weight of the edge a -> b if there is
\* one, add the edge otherwise.
update_edge(g, a, b, w) ==
    IF find_edge(g, a, b) # {}
    THEN LET ix == CHOOSE i \in find_edge(g, a, b) : TRUE
         IN  [g EXCEPT !.edges[ix].weight = w]
    ELSE [g EXCEPT !.edges = Append(@, [source |-> a, target |-> b, weight |-> w])]

\* The indices of the edges into n among edges 1..i, in petgraph's iteration
\* order: the most recently added first.
RECURSIVE incoming_upto(_, _, _)
incoming_upto(g, n, i) ==
    IF i = 0 THEN <<>>
    ELSE IF g.edges[i].target = n THEN <<i>> \o incoming_upto(g, n, i - 1)
         ELSE incoming_upto(g, n, i - 1)

\* edges_directed(n, Direction::Incoming)
incoming(g, n) == incoming_upto(g, n, Len(g.edges))

RECURSIVE outgoing_upto(_, _, _)
outgoing_upto(g, n, i) ==
    IF i = 0 THEN <<>>
    ELSE IF g.edges[i].source = n THEN <<i>> \o outgoing_upto(g, n, i - 1)
         ELSE outgoing_upto(g, n, i - 1)

\* edges_directed(n, Direction::Outgoing)
outgoing(g, n) == outgoing_upto(g, n, Len(g.edges))

Successors(g, n) == {g.edges[i].target : i \in {j \in DOMAIN g.edges : g.edges[j].source = n}}

RECURSIVE Reach(_, _, _)
Reach(g, frontier, seen) ==
    IF frontier = {} THEN seen
    ELSE LET next == UNION {Successors(g, n) : n \in frontier} \ seen
         IN  Reach(g, next, seen \cup next)

is_cyclic_directed(g) == \E n \in node_indices(g) : n \in Reach(g, {n}, {})

new == [nodes |-> <<"MetaInput">>, edges |-> <<>>]

check_invariants(g) ==
    IF Kind(g, meta_input) # "MetaInput" THEN "meta input is the wrong type"
    ELSE IF is_cyclic_directed(g) THEN "graph is cyclic"
    ELSE IF incoming(g, meta_input) # <<>> THEN "meta input has inputs"
    ELSE NoPanic

-----------------------------------------------------------------------------
(* Construction functions.  Each returns [circuit, panic, ret]: the circuit *)
(* after the call, the panic it raised ("none" if it returned) and the      *)
(* value it returned.                                                       *)

\* Sensitivity variant of Built: the new node wired back to itself and no
\* call of check_invariants.
Built_looped(g, r) ==
    [circuit |-> update_edge(g, r, r, FALSE), panic |-> NoPanic, ret |-> r]

Built(g, r) == [circuit |-> g, panic |-> check_invariants(g), ret |-> r]

\* Sensitivity variants of add_input: a second MetaInput node instead of an
\* Input, and an Input left without its wire from MetaInput.
add_input_meta(g) ==
    LET input == node_count(g)
        g1 == add_node(g, "MetaInput")
        g2 == update_edge(g1, meta_input, input, FALSE)
    IN  Built(g2, input)

add_input_unwired(g) == Built(add_node(g, "Input"), node_count(g))

add_input(g) ==
    LET input == node_count(g)
        g1 == add_node(g, "Input")
        g2 == update_edge(g1, meta_input, input, FALSE)
    IN  Built(g2, input)

add_or(g, a, b) ==
    LET result == node_count(g)
        g1 == add_node(g, "Or")
        g2 == update_edge(g1, a, result, FALSE)
        g3 == update_edge(g2, b, result, FALSE)
    IN  Built(g3, result)

add_xor(g, a, b) ==
    LET result == node_count(g)
        g1 == add_node(g, "Xor")
        g2 == update_edge(g1, a, result, FALSE)
        g3 == update_edge(g2, b, result, FALSE)
    IN  Built(g3, result)

add_and(g, a, b) ==
    LET result == node_count(g)
        g1 == add_node(g, "And")
        g2 == update_edge(g1, a, result, FALSE)
        g3 == update_edge(g2, b, result, FALSE)
    IN  Built(g3, result)

add_not(g, a) ==
    LET result == node_count(g)
        g1 == add_node(g, "Not")
        g2 == update_edge(g1, a, result, FALSE)
    IN  Built(g2, result)

add_output(g, a) ==
    LET result == node_count(g)
        g1 == add_node(g, "Output")
        g2 == update_edge(g1, a, result, FALSE)
    IN  Built(g2, result)

-----------------------------------------------------------------------------
(* ranks(): longest path from MetaInput, computed as the source does, by    *)
(* Bellman-Ford over a copy of the graph whose every edge weighs -1.        *)

\* The edges in the order one Bellman-Ford scan visits them: the nodes in
\* index order, each node's outgoing edges.
RECURSIVE ScanOrder(_, _)
ScanOrder(g, i) ==
    IF i >= node_count(g) THEN <<>>
    ELSE outgoing(g, i) \o ScanOrder(g, i + 1)

\* One scan over the edges from position k.  st.distance is defined on the
\* nodes whose distance is finite (every other distance is +infinity).
RECURSIVE relax_scan(_, _, _, _)
relax_scan(g, scan, k, st) ==
    IF k > Len(scan) THEN st
    ELSE LET e == g.edges[scan[k]]
             i == e.source
             j == e.target
             improves == /\ i \in DOMAIN st.distance
                         /\ \/ j \notin DOMAIN st.distance
                            \/ st.distance[i] + e.weight < st.distance[j]
         IN  IF improves
             THEN relax_scan(g, scan, k + 1,
                     [distance |-> (j :> (st.distance[i] + e.weight)) @@ st.distance,
                      did_update |-> TRUE])
             ELSE relax_scan(g, scan, k + 1, st)

\* Up to |V| - 1 scans, stopping at the first one that updates nothing.
RECURSIVE relax_rounds(_, _, _)
RECURSIVE next_round(_, _, _)
relax_rounds(g, round, distance) ==
    IF round >= node_count(g) THEN distance
    ELSE next_round(g, round, relax_scan(g, ScanOrder(g, 0), 1,
                                         [distance |-> distance, did_update |-> FALSE]))

\* if !did_update { break; }
next_round(g, round, st) ==
    IF st.did_update THEN relax_rounds(g, round + 1, st.distance)
    ELSE st.distance

\* bellman_ford's closing check: an edge that still relaxes is on a negative
\* cycle.
negative_cycle(g, distance) ==
    \E k \in DOMAIN g.edges :
        /\ g.edges[k].source \in DOMAIN distance
        /\ \/ g.edges[k].target \notin DOMAIN distance
           \/ distance[g.edges[k].source] + g.edges[k].weight < distance[g.edges[k].target]

bellman_ford_result(g, distance) ==
    [ok |-> ~negative_cycle(g, distance), distance |-> distance]

\* petgraph::algo::bellman_ford: [ok, distance]; not ok on a negative cycle.
bellman_ford(g, source) == bellman_ford_result(g, relax_rounds(g, 1, (source :> 0)))

\* self.0.map(|_, _| (), |_, _| -1.0f32)
minus_one_weights(g) ==
    [nodes |-> [i \in DOMAIN g.nodes |-> "()"],
     edges |-> [i \in DOMAIN g.edges |-> [g.edges[i] EXCEPT !.weight = -1]]]

\* x as u32 for an f32 x: the cast saturates, so a negative x (and -inf)
\* gives 0.  The upper end, u32::MAX, is out of reach of MaxNodes nodes.
as_u32(x) == IF x < 0 THEN 0 ELSE x

\* Sensitivity variant of ranks_from: the cast without the negation,
\* path_len as u32.
ranks_unnegated(g, path_lens) ==
    [node \in node_indices(g) |->
        IF node \in DOMAIN path_lens THEN as_u32(path_lens[node]) ELSE 0]

\* Sensitivity variant of ranks: the breadth-first depth of each node, that
\* is Bellman-Ford over weights +1 with no negation.
plus_one_weights(g) ==
    [nodes |-> [i \in DOMAIN g.nodes |-> "()"],
     edges |-> [i \in DOMAIN g.edges |-> [g.edges[i] EXCEPT !.weight = 1]]]

ranks_shortest(g) ==
    ranks_unnegated(g, bellman_ford(plus_one_weights(g), meta_input).distance)

\* The HashMap<NodeIndex, u32> that ranks() returns, as a function on the
\* nodes; (-path_len) as u32 is 0 for an unreachable node (path_len = +inf).
ranks_from(g, path_lens) ==
    [node \in node_indices(g) |->
        IF node \in DOMAIN path_lens THEN as_u32(0 - path_lens[node]) ELSE 0]

ranks(g) == ranks_from(g, bellman_ford(minus_one_weights(g), meta_input).distance)

\* The panic, if any, that a call of ranks() ends with.
ranks_panic(g) ==
    IF check_invariants(g) # NoPanic THEN check_invariants(g)
    ELSE IF ~bellman_ford(minus_one_weights(g), meta_input).ok
         THEN "called Result::unwrap() on an Err value"
         ELSE NoPanic

\* ranks.values().max().unwrap()
max_value(rk) == Max({rk[x] : x \in DOMAIN rk})

max_rank(g) == max_value(ranks(g))

\* flip_ranks: one layer per rank 0..max, each sorted by node index.
RECURSIVE SortedSeq(_)
SortedSeq(S) ==
    IF S = {} THEN <<>>
    ELSE LET m == CHOOSE x \in S : \A y \in S : x <= y
         IN  <<m>> \o SortedSeq(S \ {m})

\* Sensitivity variant of flip_ranks: each layer by decreasing node index.
RECURSIVE SortedDesc(_)
SortedDesc(S) ==
    IF S = {} THEN <<>>
    ELSE <<Max(S)>> \o SortedDesc(S \ {Max(S)})

flip_ranks_descending(rk) ==
    [r \in 1..(max_value(rk) + 1) |-> SortedDesc({x \in DOMAIN rk : rk[x] = r - 1})]

flip_ranks(rk) ==
    [r \in 1..(max_value(rk) + 1) |-> SortedSeq({x \in DOMAIN rk : rk[x] = r - 1})]

-----------------------------------------------------------------------------
(* update_order(): petgraph::algo::toposort, reversed.                      *)

\* The neighbours of nx in the order petgraph yields them.
neighbors(g, nx) ==
    LET out == outgoing(g, nx) IN [k \in 1..Len(out) |-> g.edges[out[k]].target]

\* The elements of succs from position k on that are not in discovered.
RECURSIVE undiscovered(_, _, _)
undiscovered(succs, discovered, k) ==
    IF k > Len(succs) THEN <<>>
    ELSE IF succs[k] \notin discovered
         THEN <<succs[k]>> \o undiscovered(succs, discovered, k + 1)
         ELSE undiscovered(succs, discovered, k + 1)

\* toposort's inner loop: an explicit-stack depth-first search that pushes a
\* node on finish_stack when it is popped for the first time after its
\* successors.
RECURSIVE dfs_visit(_, _)
dfs_visit(g, st) ==
    IF st.stack = <<>> THEN st
    ELSE LET nx == st.stack[Len(st.stack)]
         IN  IF nx \notin st.discovered
             THEN LET discovered == st.discovered \cup {nx}
                      push == undiscovered(neighbors(g, nx), discovered, 1)
                  IN  dfs_visit(g, [st EXCEPT !.discovered = discovered,
                                              !.stack = @ \o push])
             ELSE LET popped == SubSeq(st.stack, 1, Len(st.stack) - 1)
                  IN  IF nx \notin st.finished
                      THEN dfs_visit(g, [st EXCEPT !.stack = popped,
                                                  !.finished = @ \cup {nx},
                                                  !.finish_stack = Append(@, nx)])
                      ELSE dfs_visit(g, [st EXCEPT !.stack = popped])

\* toposort's outer loop: for i in g.node_identifiers().rev()
RECURSIVE dfs_roots(_, _, _)
dfs_roots(g, i, st) ==
    IF i < 0 THEN st
    ELSE IF i \in st.discovered THEN dfs_roots(g, i - 1, st)
         ELSE dfs_roots(g, i - 1, dfs_visit(g, [st EXCEPT !.stack = <<i>>]))

\* petgraph::algo::toposort: [ok, order]; not ok when the graph has a cycle.
toposort(g) ==
    LET st == dfs_roots(g, node_count(g) - 1,
                        [stack |-> <<>>, discovered |-> {}, finished |-> {},
                         finish_stack |-> <<>>])
    IN  [ok |-> ~is_cyclic_directed(g), order |-> Reverse(st.finish_stack)]

\* Sensitivity variant of update_order: toposort's order, not reversed.
update_order_unreversed(g) == toposort(g).order

update_order(g) == Reverse(toposort(g).order)

update_order_panic(g) ==
    IF toposort(g).ok THEN NoPanic ELSE "called Result::unwrap() on an Err value"

-----------------------------------------------------------------------------
(* Simulation.                                                              *)

\* Sensitivity variant of set_input: the value written to every wire that
\* leaves MetaInput.
set_input_all(g, input, value) ==
    IF Kind(g, input) # "Input"
    THEN [circuit |-> g, panic |-> "assertion failed: self.0[input] == Gate::Input"]
    ELSE [circuit |-> [g EXCEPT !.edges = [i \in DOMAIN g.edges |->
                          IF g.edges[i].source = meta_input
                          THEN [g.edges[i] EXCEPT !.weight = value]
                          ELSE g.edges[i]]],
          panic |-> NoPanic]

\* Sensitivity variant of set_input: the wire is written before the kind of
\* the node is asserted.
set_input_late_assert(g, input, value) ==
    [circuit |-> update_edge(g, meta_input, input, value),
     panic |-> IF Kind(g, input) # "Input"
               THEN "assertion failed: self.0[input] == Gate::Input"
               ELSE NoPanic]

\* set_input: [circuit, panic].
set_input(g, input, value) ==
    IF Kind(g, input) # "Input"
    THEN [circuit |-> g, panic |-> "assertion failed: self.0[input] == Gate::Input"]
    ELSE [circuit |-> update_edge(g, meta_input, input, value), panic |-> NoPanic]

\* get_1_in: [value, panic]; value is meaningful when panic = "none".
get_1_in(g, gate) ==
    LET gate_type == Kind(g, gate)
        edges == incoming(g, gate)
    IN  IF ~(gate_type = "Input" \/ gate_type = "Output" \/ gate_type = "Not")
        THEN [value |-> FALSE, panic |-> "gate should be Input, Output, or Not"]
        ELSE IF Len(edges) = 1
             THEN [value |-> g.edges[edges[1]].weight, panic |-> NoPanic]
             ELSE [value |-> FALSE, panic |-> "gate should only have 1 input"]

\* Sensitivity variant of get_2_in: a single incoming wire is read as both
\* inputs.
get_2_in_lenient(g, gate) ==
    LET gate_type == Kind(g, gate)
        edges == incoming(g, gate)
    IN  IF ~(gate_type = "Or" \/ gate_type = "Xor" \/ gate_type = "And")
        THEN [a |-> FALSE, b |-> FALSE, panic |-> "gate should be Or or Xor"]
        ELSE IF Len(edges) \in {1, 2}
             THEN [a |-> g.edges[edges[1]].weight,
                   b |-> g.edges[edges[Len(edges)]].weight,
                   panic |-> NoPanic]
             ELSE [a |-> FALSE, b |-> FALSE,
                   panic |-> "gate should have precisely 2 inputs"]

\* get_2_in: [a, b, panic].
get_2_in(g, gate) ==
    LET gate_type == Kind(g, gate)
        edges == incoming(g, gate)
    IN  IF ~(gate_type = "Or" \/ gate_type = "Xor" \/ gate_type = "And")
        THEN [a |-> FALSE, b |-> FALSE, panic |-> "gate should be Or or Xor"]
        ELSE IF Len(edges) = 2
             THEN [a |-> g.edges[edges[1]].weight, b |-> g.edges[edges[2]].weight,
                   panic |-> NoPanic]
             ELSE [a |-> FALSE, b |-> FALSE,
                   panic |-> "gate should have precisely 2 inputs"]

\* The value a gate computes from its incoming wires: [value, panic].
gate_value(g, gate) ==
    LET gate_type == Kind(g, gate)
        in2 == get_2_in(g, gate)
        in1 == get_1_in(g, gate)
    IN  CASE gate_type = "Or"  -> [value |-> in2.a \/ in2.b, panic |-> in2.panic]
          [] gate_type = "Xor" -> [value |-> in2.a # in2.b, panic |-> in2.panic]
          [] gate_type = "And" -> [value |-> in2.a /\ in2.b, panic |-> in2.panic]
          [] gate_type = "Not" -> [value |-> ~in1.value, panic |-> in1.panic]
          [] OTHER             -> in1

\* for edge in &edges { self.0[*edge] = value }, edges the outgoing ones of gate
RECURSIVE write_edges(_, _, _, _)
write_edges(edges, gate, value, i) ==
    IF i > Len(edges) THEN <<>>
    ELSE <<IF edges[i].source = gate THEN [edges[i] EXCEPT !.weight = value]
           ELSE edges[i]>> \o write_edges(edges, gate, value, i + 1)

\* Sensitivity variant of write_outgoing: Direction::Incoming.
RECURSIVE write_edges_into(_, _, _, _)
write_edges_into(edges, gate, value, i) ==
    IF i > Len(edges) THEN <<>>
    ELSE <<IF edges[i].target = gate THEN [edges[i] EXCEPT !.weight = value]
           ELSE edges[i]>> \o write_edges_into(edges, gate, value, i + 1)

write_incoming(g, gate, value) == [g EXCEPT !.edges = write_edges_into(@, gate, value, 1)]

write_outgoing(g, gate, value) == [g EXCEPT !.edges = write_edges(@, gate, value, 1)]

RECURSIVE update_signals_from(_, _, _)
RECURSIVE update_signals_write(_, _, _, _)

\* Sensitivity variant of update_signals_from: MetaInput is not skipped, its
\* outgoing wires are written with false.
update_signals_meta(g, ord, k) ==
    IF k > Len(ord) THEN [circuit |-> g, panic |-> NoPanic]
    ELSE IF Kind(g, ord[k]) = "MetaInput"
         THEN update_signals_from(write_outgoing(g, ord[k], FALSE), ord, k + 1)
         ELSE update_signals_write(g, ord, k, gate_value(g, ord[k]))

\* The loop of update_signals_once from position k of the order; a panic
\* leaves the wires written so far.
update_signals_from(g, ord, k) ==
    IF k > Len(ord) THEN [circuit |-> g, panic |-> NoPanic]
    ELSE IF Kind(g, ord[k]) = "MetaInput" THEN update_signals_from(g, ord, k + 1)
    ELSE update_signals_write(g, ord, k, gate_value(g, ord[k]))

\* let edges = outgoing edges of gate; for edge in &edges { self.0[*edge] = value }
update_signals_write(g, ord, k, v) ==
    IF v.panic # NoPanic THEN [circuit |-> g, panic |-> v.panic]
    ELSE update_signals_from(write_outgoing(g, ord[k], v.value), ord, k + 1)

\* Sensitivity variant of update_signals_once: the pass visits the nodes of
\* a fresh update_order() whatever order it is given.
update_signals_once_fresh(g, ord) == update_signals_from(g, update_order(g), 1)

update_signals_once(g, ord) == update_signals_from(g, ord, 1)

\* The wires that `for edge in &edges { self.0[*edge] = value }` writes when
\* the pass visits gate: their places in g.edges.
written(g, gate) ==
    {i \in DOMAIN g.edges :
        write_outgoing(g, gate, TRUE).edges[i] # write_outgoing(g, gate, FALSE).edges[i]}

\* The writes of one pass in the order they are made: for each gate the loop
\* of update_signals_once visits and evaluates, the wires it writes.
RECURSIVE writes_from(_, _, _)
RECURSIVE writes_write(_, _, _, _)
writes_from(g, ord, k) ==
    IF k > Len(ord) THEN <<>>
    ELSE IF Kind(g, ord[k]) = "MetaInput" THEN writes_from(g, ord, k + 1)
    ELSE writes_write(g, ord, k, gate_value(g, ord[k]))

writes_write(g, ord, k, v) ==
    IF v.panic # NoPanic THEN <<>>
    ELSE <<written(g, ord[k])>>
             \o writes_from(write_outgoing(g, ord[k], v.value), ord, k + 1)

\* How many times the pass update_signals_once(ord) writes wire i of g.
times_written(g, ord, i) ==
    LET writes == writes_from(g, ord, 1)
    IN  Cardinality({k \in DOMAIN writes : i \in writes[k]})

-----------------------------------------------------------------------------
(* Composite builders: [circuit, panic, ret].                               *)

half_adder_c(s, c) ==
    IF c.panic # NoPanic THEN [c EXCEPT !.ret = <<>>]
    ELSE [c EXCEPT !.ret = <<s.ret, c.ret>>]

\* Sensitivity variant of half_adder_s: the carry from add_or.
half_adder_s_or(s, a, b) ==
    IF s.panic # NoPanic THEN [s EXCEPT !.ret = <<>>]
    ELSE half_adder_c(s, add_or(s.circuit, a, b))

half_adder_s(s, a, b) ==
    IF s.panic # NoPanic THEN [s EXCEPT !.ret = <<>>]
    ELSE half_adder_c(s, add_and(s.circuit, a, b))

half_adder(g, a, b) == half_adder_s(add_xor(g, a, b), a, b)

\* full_adder, one let per operator: each takes the results so far.
full_adder_c_out(s, c_out) ==
    IF c_out.panic # NoPanic THEN [c_out EXCEPT !.ret = <<>>]
    ELSE [c_out EXCEPT !.ret = <<s.ret, c_out.ret>>]

\* Sensitivity variant of full_adder_i2: c_out from add_and.
full_adder_i2_and(s, i1, i2) ==
    IF i2.panic # NoPanic THEN [i2 EXCEPT !.ret = <<>>]
    ELSE full_adder_c_out(s, add_and(i2.circuit, i1.ret, i2.ret))

full_adder_i2(s, i1, i2) ==
    IF i2.panic # NoPanic THEN [i2 EXCEPT !.ret = <<>>]
    ELSE full_adder_c_out(s, add_or(i2.circuit, i1.ret, i2.ret))

full_adder_i1(a_x_b, s, i1, c_in) ==
    IF i1.panic # NoPanic THEN [i1 EXCEPT !.ret = <<>>]
    ELSE full_adder_i2(s, i1, add_and(i1.circuit, c_in, a_x_b.ret))

\* Sensitivity variant of full_adder_s: i1 from a and c_in.
full_adder_s_c_in(a_x_b, s, a, b, c_in) ==
    IF s.panic # NoPanic THEN [s EXCEPT !.ret = <<>>]
    ELSE full_adder_i1(a_x_b, s, add_and(s.circuit, a, c_in), c_in)

full_adder_s(a_x_b, s, a, b, c_in) ==
    IF s.panic # NoPanic THEN [s EXCEPT !.ret = <<>>]
    ELSE full_adder_i1(a_x_b, s, add_and(s.circuit, a, b), c_in)

full_adder_a_x_b(a_x_b, a, b, c_in) ==
    IF a_x_b.panic # NoPanic THEN [a_x_b EXCEPT !.ret = <<>>]
    ELSE full_adder_s(a_x_b, add_xor(a_x_b.circuit, a_x_b.ret, c_in), a, b, c_in)

full_adder(g, a, b, c_in) == full_adder_a_x_b(add_xor(g, a, b), a, b, c_in)

\* The loop of ripple_carry from bit i (a[i + 1] is the source's a[i]); out
\* and c are the sum bits and the carry so far.
RECURSIVE ripple_carry_from(_, _, _, _, _, _)
RECURSIVE ripple_carry_next(_, _, _, _, _)
ripple_carry_from(g, a, b, i, out, c) ==
    IF i >= Len(a) THEN [circuit |-> g, panic |-> NoPanic, ret |-> <<out, c>>]
    ELSE ripple_carry_next(full_adder(g, a[i + 1], b[i + 1], c), a, b, i, out)

\* out.push(si); c = ci;
ripple_carry_next(fa, a, b, i, out) ==
    IF fa.panic # NoPanic THEN fa
    ELSE ripple_carry_from(fa.circuit, a, b, i + 1, Append(out, fa.ret[1]), fa.ret[2])

\* let mut out = vec![s0]; let mut c = c0; and the loop
ripple_carry_first(ha, a, b) ==
    IF ha.panic # NoPanic THEN ha
    ELSE ripple_carry_from(ha.circuit, a, b, 1, <<ha.ret[1]>>, ha.ret[2])

\* Sensitivity variant of ripple_carry: the first half adder is built
\* before the lengths are compared.
ripple_carry_late_assert(g, a, b) ==
    IF Len(a) = 0 \/ Len(b) = 0
    THEN [circuit |-> g,
          panic |-> IF Len(a) # Len(b) THEN "assertion failed: a.len() == b.len()"
                    ELSE "index out of bounds",
          ret |-> <<>>]
    ELSE IF Len(a) # Len(b)
         THEN [circuit |-> half_adder(g, a[1], b[1]).circuit,
               panic |-> "assertion failed: a.len() == b.len()", ret |-> <<>>]
         ELSE ripple_carry_first(half_adder(g, a[1], b[1]), a, b)

ripple_carry(g, a, b) ==
    IF Len(a) # Len(b)
    THEN [circuit |-> g, panic |-> "assertion failed: a.len() == b.len()", ret |-> <<>>]
    ELSE IF Len(a) = 0
         THEN [circuit |-> g, panic |-> "index out of bounds", ret |-> <<>>]
         ELSE ripple_carry_first(half_adder(g, a[1], b[1]), a, b)

-----------------------------------------------------------------------------
(* Bit packing.                                                             *)

get_bit(v, b) == ((v \div (2 ^ b)) % 2) = 1

set_bit(v, b, on) ==
    IF on THEN (IF get_bit(v, b) THEN v ELSE v + 2 ^ b)
    ELSE v

-----------------------------------------------------------------------------
(* Any caller: construction, set_input and evaluation calls in any order,   *)
(* on circuits of at most MaxNodes nodes.  A panic ends the program.        *)

Init ==
    /\ graph = new
    /\ order = <<>>
    /\ passes = 0
    /\ panicked = NoPanic
    /\ locals = NoLocals

Running == panicked = NoPanic

CanGrow(k) == node_count(graph) + k <= MaxNodes

Construct(r) ==
    /\ graph' = r.circuit
    /\ panicked' = r.panic
    /\ passes' = 0
    /\ UNCHANGED <<order, locals>>

AddInput == Running /\ CanGrow(1) /\ Construct(add_input(graph))

AddOr ==
    /\ Running /\ CanGrow(1)
    /\ \E a, b \in node_indices(graph) : Construct(add_or(graph, a, b))

AddXor ==
    /\ Running /\ CanGrow(1)
    /\ \E a, b \in node_indices(graph) : Construct(add_xor(graph, a, b))

AddAnd ==
    /\ Running /\ CanGrow(1)
    /\ \E a, b \in node_indices(graph) : Construct(add_and(graph, a, b))

AddNot ==
    /\ Running /\ CanGrow(1)
    /\ \E a \in node_indices(graph) : Construct(add_not(graph, a))

AddOutput ==
    /\ Running /\ CanGrow(1)
    /\ \E a \in node_indices(graph) : Construct(add_output(graph, a))

\* The circuit and the panic a call leaves.
SetResult(r) ==
    /\ graph' = r.circuit
    /\ panicked' = r.panic

SetInput ==
    /\ Running
    /\ \E input \in node_indices(graph), value \in BOOLEAN :
          SetResult(set_input(graph, input, value))
    /\ passes' = 0
    /\ UNCHANGED <<order, locals>>

\* One evaluator pass with the order ord; passes counts up to cap.
Pass(ord, cap) ==
    /\ SetResult(update_signals_once(graph, ord))
    /\ passes' = IF passes < cap THEN passes + 1 ELSE passes
    /\ UNCHANGED <<order, locals>>

\* circuit.update_signals_once(&circuit.update_order())
UpdateSignalsOnce ==
    /\ Running
    /\ Pass(update_order(graph), max_rank(graph) + 1)

Next ==
    \/ AddInput \/ AddOr \/ AddXor \/ AddAnd \/ AddNot \/ AddOutput
    \/ SetInput
    \/ UpdateSignalsOnce

Spec == Init /\ [][Next]_vars

-----------------------------------------------------------------------------
(* A caller that builds a circuit and then queries its structure with      *)
(* update_order(), ranks() and flip_ranks(), keeping the results as         *)
(* test_simple_circuit does (let order, let ranks, let flipped).  As in the *)
(* tests and the demo, the queries follow the construction.                 *)

InitAnalysis ==
    /\ graph = new
    /\ order = <<>>
    /\ passes = 0
    /\ panicked = NoPanic
    /\ locals = NoLocals

UpdateOrder ==
    /\ Running
    /\ order' = update_order(graph)
    /\ panicked' = update_order_panic(graph)
    /\ UNCHANGED <<graph, passes, locals>>

Ranks ==
    /\ Running
    /\ locals' = [locals EXCEPT !.ranked = TRUE, !.ranks = ranks(graph)]
    /\ panicked' = ranks_panic(graph)
    /\ UNCHANGED <<graph, order, passes>>

FlipRanks ==
    /\ Running
    /\ locals.ranked
    /\ locals' = [locals EXCEPT !.flipped = flip_ranks(locals.ranks)]
    /\ UNCHANGED <<graph, order, passes, panicked>>

\* No query has been made yet.
Building == order = <<>> /\ ~locals.ranked

NextAnalysis ==
    \/ Building /\ AddInput
    \/ Building /\ AddOr
    \/ Building /\ AddXor
    \/ Building /\ AddAnd
    \/ Building /\ AddNot
    \/ Building /\ AddOutput
    \/ UpdateOrder
    \/ Ranks
    \/ FlipRanks

SpecAnalysis == InitAnalysis /\ [][NextAnalysis]_vars

-----------------------------------------------------------------------------
(* A caller that keeps the order it got from update_order() and goes on     *)
(* building: every pass is update_signals_once(&order) with the order kept, *)
(* as the tests and the demo call it, until update_order() is called again. *)

\* circuit.update_signals_once(&order), order being the one kept
StalePass ==
    /\ Running
    /\ order # <<>>
    /\ Pass(order, max_rank(graph) + 1)

NextStale ==
    \/ AddInput \/ AddOr \/ AddXor \/ AddAnd \/ AddNot \/ AddOutput
    \/ SetInput
    \/ UpdateOrder
    \/ StalePass

SpecStale == InitAnalysis /\ [][NextStale]_vars

-----------------------------------------------------------------------------
(* A caller that builds the circuit first and then only drives it, as the   *)
(* tests and the demo do: once the first pass has run, the calls are        *)
(* set_input and update_signals_once(&update_order()) in any order.         *)
(* locals.evaluated tells that a pass has run.                              *)

InitDrive ==
    /\ graph = new
    /\ order = <<>>
    /\ passes = 0
    /\ panicked = NoPanic
    /\ locals = [evaluated |-> FALSE]

\* No pass has run yet.
NotEvaluated == ~locals.evaluated

\* circuit.update_signals_once(&circuit.update_order())
DrivePass ==
    /\ Running
    /\ SetResult(update_signals_once(graph, update_order(graph)))
    /\ passes' = IF passes < max_rank(graph) + 1 THEN passes + 1 ELSE passes
    /\ locals' = [evaluated |-> TRUE]
    /\ UNCHANGED order

NextDrive ==
    \/ NotEvaluated /\ AddInput
    \/ NotEvaluated /\ AddOr
    \/ NotEvaluated /\ AddXor
    \/ NotEvaluated /\ AddAnd
    \/ NotEvaluated /\ AddNot
    \/ NotEvaluated /\ AddOutput
    \/ SetInput
    \/ DrivePass

SpecDrive == InitDrive /\ [][NextDrive]_vars

-----------------------------------------------------------------------------
(* The unit tests' circuits and drivers.                                    *)

\* Width of the adder of test_ripple_carry (the test itself uses n = 4).
NBits == 2

\* for _ in 0..5 (test_simple_circuit), for _ in 0..32 (test_full_adder)
SimpleSteps == 5
FullAdderSteps == 32

\* (0..n).map(|_| circuit.add_input()).collect(): [circuit, ret]
RECURSIVE add_inputs(_, _, _)
RECURSIVE add_inputs_next(_, _, _)
add_inputs(g, n, acc) ==
    IF n = 0 THEN [circuit |-> g, ret |-> acc]
    ELSE add_inputs_next(add_input(g), n, acc)

add_inputs_next(r, n, acc) == add_inputs(r.circuit, n - 1, Append(acc, r.ret))

\* s.into_iter().map(|si| circuit.add_output(si)).collect(): [circuit, ret]
RECURSIVE add_outputs(_, _, _, _)
RECURSIVE add_outputs_next(_, _, _, _)
add_outputs(g, s, i, acc) ==
    IF i > Len(s) THEN [circuit |-> g, ret |-> acc]
    ELSE add_outputs_next(add_output(g, s[i]), s, i, acc)

add_outputs_next(r, s, i, acc) == add_outputs(r.circuit, s, i + 1, Append(acc, r.ret))

\* test_simple_circuit, up to let order: the circuit and its handles.
simple_test_out(a, b, x, out) ==
    [circuit |-> out.circuit, a |-> a.ret, b |-> b.ret, x |-> x.ret, out |-> out.ret,
     order |-> update_order(out.circuit)]

simple_test_x(a, b, x) == simple_test_out(a, b, x, add_output(x.circuit, x.ret))

\* Sensitivity variant of simple_test_b: add_or in place of add_xor.
simple_test_b_or(a, b) == simple_test_x(a, b, add_or(b.circuit, a.ret, b.ret))

simple_test_b(a, b) == simple_test_x(a, b, add_xor(b.circuit, a.ret, b.ret))

simple_test_a(a) == simple_test_b(a, add_input(a.circuit))

SimpleTest == simple_test_a(add_input(new))

\* test_full_adder, up to let order.
full_adder_test_c_out(a, b, c_in, s, c_out) ==
    [circuit |-> c_out.circuit, a |-> a.ret, b |-> b.ret, c_in |-> c_in.ret,
     s |-> s.ret, c_out |-> c_out.ret, order |-> update_order(c_out.circuit)]

full_adder_test_s(a, b, c_in, fa, s) ==
    full_adder_test_c_out(a, b, c_in, s, add_output(s.circuit, fa.ret[2]))

full_adder_test_fa(a, b, c_in, fa) ==
    full_adder_test_s(a, b, c_in, fa, add_output(fa.circuit, fa.ret[1]))

full_adder_test_c_in(a, b, c_in) ==
    full_adder_test_fa(a, b, c_in, full_adder(c_in.circuit, a.ret, b.ret, c_in.ret))

full_adder_test_b(a, b) == full_adder_test_c_in(a, b, add_input(b.circuit))

full_adder_test_a(a) == full_adder_test_b(a, add_input(a.circuit))

FullAdderTest == full_adder_test_a(add_input(new))

\* test_ripple_carry, up to let order, for an n-bit adder.
ripple_test_s(a, b, c, s) ==
    [circuit |-> s.circuit, a |-> a.ret, b |-> b.ret, s |-> s.ret, c |-> c.ret,
     steps |-> Len(flip_ranks(ranks(s.circuit))) + 1,
     order |-> update_order(s.circuit)]

ripple_test_c(a, b, rc, c) ==
    ripple_test_s(a, b, c, add_outputs(c.circuit, rc.ret[1], 1, <<>>))

ripple_test_rc(a, b, rc) == ripple_test_c(a, b, rc, add_output(rc.circuit, rc.ret[2]))

ripple_test_b(a, b) == ripple_test_rc(a, b, ripple_carry(b.circuit, a.ret, b.ret))

ripple_test_a(a, n) == ripple_test_b(a, add_inputs(a.circuit, n, <<>>))

ripple_test(n) == ripple_test_a(add_inputs(new, n, <<>>), n)

RippleTest == ripple_test(NBits)

\* The evaluator pass of a test: circuit.update_signals_once(&order)
TestPass(steps) == Running /\ Pass(order, steps)

\* --- test_simple_circuit: set_input on a or b, five passes, get_1_in(out)
InitSimple ==
    /\ graph = SimpleTest.circuit
    /\ order = SimpleTest.order
    /\ passes = 0
    /\ panicked = NoPanic
    /\ locals = NoLocals

SimpleSetInput ==
    /\ Running
    /\ \E input \in {SimpleTest.a, SimpleTest.b}, value \in BOOLEAN :
          SetResult(set_input(graph, input, value))
    /\ passes' = 0
    /\ UNCHANGED <<order, locals>>

SimplePass == TestPass(SimpleSteps)

\* let ranks = circuit.ranks(); let flipped = flip_ranks(&ranks);
NextSimple == SimpleSetInput \/ SimplePass \/ Ranks \/ FlipRanks

SpecSimple == InitSimple /\ [][NextSimple]_vars

\* --- test_full_adder: the three set_input calls of the loop body, 32 passes
InitFullAdder ==
    /\ graph = FullAdderTest.circuit
    /\ order = FullAdderTest.order
    /\ passes = 0
    /\ panicked = NoPanic
    /\ locals = [NoLocals EXCEPT !.a_ = FALSE, !.b_ = FALSE, !.c_in_ = FALSE]

FullAdderAssign ==
    /\ Running
    /\ \E a_ \in BOOLEAN, b_ \in BOOLEAN, c_in_ \in BOOLEAN :
          /\ SetResult(set_input(set_input(set_input(graph, FullAdderTest.a, a_).circuit,
                                           FullAdderTest.b, b_).circuit,
                                 FullAdderTest.c_in, c_in_))
          /\ locals' = [locals EXCEPT !.a_ = a_, !.b_ = b_, !.c_in_ = c_in_]
    /\ passes' = 0
    /\ UNCHANGED order

FullAdderPass == TestPass(FullAdderSteps)

NextFullAdder == FullAdderAssign \/ FullAdderPass

SpecFullAdder == InitFullAdder /\ [][NextFullAdder]_vars

\* --- test_ripple_carry: set every input bit from a_ and b_, steps passes;
\* the next assignment starts where the previous steps passes ended.
\* for i in 0..n { set_input(a[i], get_bit(a_, i)); set_input(b[i], get_bit(b_, i)) }
RECURSIVE set_inputs_from(_, _, _, _)
RECURSIVE set_inputs_b(_, _, _, _)
RECURSIVE set_inputs_next(_, _, _, _)
set_inputs_from(g, a_, b_, i) ==
    IF i >= NBits THEN [circuit |-> g, panic |-> NoPanic]
    ELSE set_inputs_b(set_input(g, RippleTest.a[i + 1], get_bit(a_, i)), a_, b_, i)

set_inputs_b(r1, a_, b_, i) ==
    IF r1.panic # NoPanic THEN r1
    ELSE set_inputs_next(set_input(r1.circuit, RippleTest.b[i + 1], get_bit(b_, i)), a_, b_, i)

set_inputs_next(r2, a_, b_, i) ==
    IF r2.panic # NoPanic THEN r2
    ELSE set_inputs_from(r2.circuit, a_, b_, i + 1)

InitRipple ==
    /\ graph = RippleTest.circuit
    /\ order = RippleTest.order
    /\ passes = 0
    /\ panicked = NoPanic
    /\ locals = NoLocals

RippleAssign ==
    /\ Running
    /\ passes \in {0, RippleTest.steps}
    /\ \E a_ \in 0..(2 ^ NBits - 1), b_ \in 0..(2 ^ NBits - 1) :
          /\ SetResult(set_inputs_from(graph, a_, b_, 0))
          /\ locals' = [locals EXCEPT !.a_ = a_, !.b_ = b_]
    /\ passes' = 0
    /\ UNCHANGED order

RipplePass == TestPass(RippleTest.steps)

NextRipple == RippleAssign \/ RipplePass

SpecRipple == InitRipple /\ [][NextRipple]_vars

\* let mut s__ = 0; for i in 0..n { s__ = set_bit(s__, i, circuit.get_1_in(s[i])) }
RECURSIVE pack_bits(_, _, _, _)
pack_bits(g, handles, i, acc) ==
    IF i >= Len(handles) THEN acc
    ELSE pack_bits(g, handles, i + 1, set_bit(acc, i, get_1_in(g, handles[i + 1]).value))

-----------------------------------------------------------------------------
(* The ripple-carry demo (examples/ripple_carry_circuit.rs): model() builds *)
(* the adder, then the framework delivers Update and window events in any   *)
(* order.  The mouse and touch positions are any, so the nearest input is   *)
(* any input; the clock and the keyboard are any, so an update may or may   *)
(* not clear the inputs and may or may not run a pass.  locals.selected is  *)
(* model.selected.                                                          *)

\* const N: usize = 8; here the width of the demo's adder.
N == 1

\* model(): the same calls as test_ripple_carry up to update_order(), and
\* selected: c.
model ==
    LET m == ripple_test(N)
    IN  [circuit |-> m.circuit, a |-> m.a, b |-> m.b, s |-> m.s, c |-> m.c,
         update_order |-> m.order, selected |-> m.c]

\* model.a.iter().chain(model.b.iter()): the nodes min_by_key chooses from
ModelInputs ==
    {model.a[i] : i \in DOMAIN model.a} \cup {model.b[i] : i \in DOMAIN model.b}

InitDemo ==
    /\ graph = model.circuit
    /\ order = model.update_order
    /\ passes = 0
    /\ panicked = NoPanic
    /\ locals = [selected |-> model.selected]

\* for i in 0..N { set_input(model.a[i], false); set_input(model.b[i], false) }
RECURSIVE clear_inputs_from(_, _)
RECURSIVE clear_inputs_b(_, _)
RECURSIVE clear_inputs_next(_, _)
clear_inputs_from(g, i) ==
    IF i >= N THEN [circuit |-> g, panic |-> NoPanic]
    ELSE clear_inputs_b(set_input(g, model.a[i + 1], FALSE), i)

clear_inputs_b(r1, i) ==
    IF r1.panic # NoPanic THEN r1
    ELSE clear_inputs_next(set_input(r1.circuit, model.b[i + 1], FALSE), i)

clear_inputs_next(r2, i) ==
    IF r2.panic # NoPanic THEN r2
    ELSE clear_inputs_from(r2.circuit, i + 1)

\* if epoch(t - dt) < epoch(t) { update_signals_once(&model.update_order) }
update_tick(r, tick) ==
    IF r.panic # NoPanic \/ ~tick THEN r
    ELSE update_signals_once(r.circuit, model.update_order)

\* update, after model.selected is set: clear tells t < 0.2 or a key is down,
\* tick that an epoch has passed.
update(g, clear, tick) ==
    update_tick(IF clear THEN clear_inputs_from(g, 0)
                ELSE [circuit |-> g, panic |-> NoPanic], tick)

\* Event::Update
Update ==
    /\ Running
    /\ \E nearest \in ModelInputs, clear \in BOOLEAN, tick \in BOOLEAN :
          /\ locals' = [locals EXCEPT !.selected = nearest]
          /\ SetResult(update(graph, clear, tick))
          /\ passes' = IF tick
                       THEN (IF clear THEN 1
                             ELSE IF passes <= max_rank(graph) THEN passes + 1 ELSE passes)
                       ELSE (IF clear THEN 0 ELSE passes)
    /\ UNCHANGED order

\* let current = get_1_in(node); set_input(node, !current);
toggle(g, node) ==
    IF get_1_in(g, node).panic # NoPanic
    THEN [circuit |-> g, panic |-> get_1_in(g, node).panic]
    ELSE set_input(g, node, ~get_1_in(g, node).value)

\* Event::WindowEvent MousePressed
MousePressed ==
    /\ Running
    /\ SetResult(toggle(graph, locals.selected))
    /\ passes' = 0
    /\ UNCHANGED <<order, locals>>

\* Event::WindowEvent Touch, TouchPhase::Started
TouchStarted ==
    /\ Running
    /\ \E selected \in ModelInputs : SetResult(toggle(graph, selected))
    /\ passes' = 0
    /\ UNCHANGED <<order, locals>>

NextDemo == Update \/ MousePressed \/ TouchStarted

SpecDemo == InitDemo /\ [][NextDemo]_vars

-----------------------------------------------------------------------------
(* A caller that only builds: at most MaxCalls calls of the six gate        *)
(* constructors, half_adder, full_adder and ripple_carry, each with any     *)
(* existing handles.  locals keeps the last call: its name, its arguments,  *)
(* the value it returned and the circuit it was made on.                    *)

MaxCalls == 2

\* The longest handle slice passed to ripple_carry.
MaxRippleBits == 2

\* Every &[NodeIndex] of at most n existing handles.
HandleSeqs(g, n) == UNION {[1..k -> node_indices(g)] : k \in 0..n}

NoCall == [calls |-> 0, op |-> "none", args |-> <<>>, ret |-> <<>>, before |-> new]

InitCompose ==
    /\ graph = new
    /\ order = <<>>
    /\ passes = 0
    /\ panicked = NoPanic
    /\ locals = NoCall

\* The caller has a call left to make.
CanCall == Running /\ locals.calls < MaxCalls

\* The call op(args) made on graph with result r.
Call(op, args, r) ==
    /\ graph' = r.circuit
    /\ panicked' = r.panic
    /\ locals' = [calls |-> locals.calls + 1, op |-> op, args |-> args,
                  ret |-> r.ret, before |-> graph]
    /\ UNCHANGED <<order, passes>>

CallAddInput == CanCall /\ Call("add_input", <<>>, add_input(graph))

CallAddOr ==
    /\ CanCall
    /\ \E a, b \in node_indices(graph) :
          Call("add_or", <<a, b>>, add_or(graph, a, b))

CallAddXor ==
    /\ CanCall
    /\ \E a, b \in node_indices(graph) :
          Call("add_xor", <<a, b>>, add_xor(graph, a, b))

CallAddAnd ==
    /\ CanCall
    /\ \E a, b \in node_indices(graph) :
          Call("add_and", <<a, b>>, add_and(graph, a, b))

CallAddNot ==
    /\ CanCall
    /\ \E a \in node_indices(graph) :
          Call("add_not", <<a>>, add_not(graph, a))

CallAddOutput ==
    /\ CanCall
    /\ \E a \in node_indices(graph) :
          Call("add_output", <<a>>, add_output(graph, a))

CallHalfAdder ==
    /\ CanCall
    /\ \E a, b \in node_indices(graph) :
          Call("half_adder", <<a, b>>, half_adder(graph, a, b))

CallFullAdder ==
    /\ CanCall
    /\ \E a, b, c_in \in node_indices(graph) :
          Call("full_adder", <<a, b, c_in>>, full_adder(graph, a, b, c_in))

CallRippleCarry ==
    /\ CanCall
    /\ \E a, b \in HandleSeqs(graph, MaxRippleBits) :
          Call("ripple_carry", <<a, b>>, ripple_carry(graph, a, b))

NextCompose ==
    \/ CallAddInput \/ CallAddOr \/ CallAddXor \/ CallAddAnd
    \/ CallAddNot \/ CallAddOutput
    \/ CallHalfAdder
    \/ CallFullAdder
    \/ CallRippleCarry

SpecCompose == InitCompose /\ [][NextCompose]_vars

-----------------------------------------------------------------------------
(* A caller of the bit helpers: a word of BitWidth bits is packed with      *)
(* set_bit and read with get_bit, as the ripple-carry test packs the sum.   *)
(* locals holds the last call: its arguments v, b and on, the word the      *)
(* caller keeps and the bit it last read.                                   *)

BitWidth == 4

Words == 0..(2 ^ BitWidth - 1)

BitIndices == 0..(BitWidth - 1)

InitBits ==
    /\ graph = new
    /\ order = <<>>
    /\ passes = 0
    /\ panicked = NoPanic
    /\ \E v \in Words :
          locals = [op |-> "none", v |-> v, b |-> 0, on |-> FALSE,
                    word |-> v, bit |-> FALSE]

\* word = set_bit(word, b, on)
SetBit ==
    /\ \E b \in BitIndices, on \in BOOLEAN :
          locals' = [locals EXCEPT !.op = "set_bit", !.v = locals.word, !.b = b,
                                   !.on = on, !.word = set_bit(locals.word, b, on)]
    /\ UNCHANGED <<graph, order, passes, panicked>>

\* bit = get_bit(word, b)
GetBit ==
    /\ \E b \in BitIndices :
          locals' = [locals EXCEPT !.op = "get_bit", !.v = locals.word, !.b = b,
                                   !.bit = get_bit(locals.word, b)]
    /\ UNCHANGED <<graph, order, passes, panicked>>

NextBits == SetBit \/ GetBit

SpecBits == InitBits /\ [][NextBits]_vars

-----------------------------------------------------------------------------
(* Properties.                                                              *)

\* What a pass that changes nothing and does not panic returns.
Unchanged(g) == [circuit |-> g, panic |-> NoPanic]

\* The position of node n in the sequence seq.
Pos(seq, n) == CHOOSE i \in DOMAIN seq : seq[i] = n

\* seq holds every element of S exactly once.
IsPermutation(seq, S) ==
    /\ Len(seq) = Cardinality(S)
    /\ \A n \in S : \E i \in DOMAIN seq : seq[i] = n

\* The sources of the wires into n.
Preds(g, n) == {g.edges[i].source : i \in {j \in DOMAIN g.edges : g.edges[j].target = n}}

\* The number of wires on the longest directed path that ends in n.
RECURSIVE LongestPath(_, _)
LongestPath(g, n) ==
    IF Preds(g, n) = {} THEN 0
    ELSE Max({LongestPath(g, p) + 1 : p \in Preds(g, n)})

\* Some wire that leaves a gate other than MetaInput carries TRUE.
SomeSignal == \E i \in DOMAIN graph.edges :
                 graph.edges[i].weight /\ graph.edges[i].source # meta_input

\* C1: once update_signals_once(update_order()) has run at least
\* max rank + 1 times since the last set_input, the circuit is at a fixed
\* point: one more pass leaves every wire's value unchanged.
C1_FixedPoint ==
    (Running /\ passes >= max_rank(graph) + 1)
        => update_signals_once(graph, update_order(graph)) = Unchanged(graph)

\* C1 happens: a chain of rank 3 has had its max rank + 1 passes and carries
\* a signal.
C1_Settled ==
    /\ Running
    /\ passes >= max_rank(graph) + 1
    /\ max_rank(graph) >= 3
    /\ SomeSignal

\* C2 as the specification states it: after one pass every wire holds its
\* settled value, so a second pass changes nothing.
C2_SinglePassSettles ==
    (Running /\ passes >= 1)
        => update_signals_once(graph, update_order(graph)) = Unchanged(graph)

\* C2: one pass with the order of update_order() moves every signal one gate
\* forward: each wire that leaves a gate ends the pass with the gate's
\* function of the values the gate's incoming wires had before the pass, and
\* the wires that leave MetaInput keep their values.
C2_OneGateStep ==
    [][(UpdateSignalsOnce /\ panicked' = NoPanic)
          => \A i \in DOMAIN graph.edges :
                graph'.edges[i].weight =
                    IF graph.edges[i].source = meta_input
                    THEN graph.edges[i].weight
                    ELSE gate_value(graph, graph.edges[i].source).value]_vars

\* C2 happens: after the first pass since a set_input, a second pass would
\* still change a wire.
C2_SecondPassChanges ==
    /\ Running
    /\ passes = 1
    /\ update_signals_once(graph, update_order(graph)).circuit # graph

\* C6 as the specification states it: the order holds every node once and
\* every wire's source comes before its sink.
C6_SourceBeforeSink ==
    order # <<>>
        => /\ IsPermutation(order, node_indices(graph))
           /\ \A i \in DOMAIN graph.edges :
                 Pos(order, graph.edges[i].source) < Pos(order, graph.edges[i].target)

\* C6: update_order() returns every node exactly once, and every wire's sink
\* comes before its source.
C6_SinkBeforeSource ==
    order # <<>>
        => /\ IsPermutation(order, node_indices(graph))
           /\ \A i \in DOMAIN graph.edges :
                 Pos(order, graph.edges[i].target) < Pos(order, graph.edges[i].source)

\* C6 happens: update_order() has returned for a circuit of four wires.
C6_Ordered == Running /\ order # <<>> /\ Len(graph.edges) >= 4

\* C7: for every wire from u to v, ranks()[u] < ranks()[v].
C7_RankIncreases ==
    (Running /\ locals.ranked)
        => \A i \in DOMAIN graph.edges :
              locals.ranks[graph.edges[i].source] < locals.ranks[graph.edges[i].target]

\* C7 happens: ranks() has returned for a circuit of four wires with a node
\* of rank 3.
C7_Ranked ==
    /\ Running /\ locals.ranked
    /\ Len(graph.edges) >= 4
    /\ \E n \in node_indices(graph) : locals.ranks[n] = 3

\* C8: ranks() gives every node the number of wires on the longest directed
\* path from MetaInput to it, and MetaInput 0.
C8_LongestPath ==
    (Running /\ locals.ranked)
        => /\ DOMAIN locals.ranks = node_indices(graph)
           /\ \A n \in node_indices(graph) : locals.ranks[n] = LongestPath(graph, n)

\* C8 happens: ranks() has returned for a circuit with a wire that skips a
\* rank, so its sink also has a shorter path from MetaInput.
C8_ShorterPathExists ==
    /\ Running /\ locals.ranked
    /\ \E i \in DOMAIN graph.edges :
          locals.ranks[graph.edges[i].target] > locals.ranks[graph.edges[i].source] + 1

\* C9: exactly one node has kind MetaInput, it is the node with handle 0,
\* and no wire ends in it.
C9_OneMetaInput ==
    /\ {n \in node_indices(graph) : Kind(graph, n) = "MetaInput"} = {0}
    /\ incoming(graph, 0) = <<>>

\* C9 happens: a circuit of MaxNodes nodes has been built and evaluated.
C9_BuiltAndEvaluated ==
    /\ Running
    /\ node_count(graph) = MaxNodes
    /\ passes >= 1
    /\ SomeSignal

\* C10: every Input node has exactly one incoming wire, and its source is
\* MetaInput.
C10_InputWiredToMeta ==
    \A n \in node_indices(graph) :
        Kind(graph, n) = "Input"
            => /\ Len(incoming(graph, n)) = 1
               /\ graph.edges[incoming(graph, n)[1]].source = meta_input

\* C10 happens: two Inputs, one set to TRUE, and a pass has run.
C10_TwoInputs ==
    /\ Running
    /\ Cardinality({n \in node_indices(graph) : Kind(graph, n) = "Input"}) >= 2
    /\ passes >= 1
    /\ \E i \in DOMAIN graph.edges :
          graph.edges[i].weight /\ graph.edges[i].source = meta_input

\* C3: after max rank + 2 passes the sum outputs of the ripple-carry adder,
\* packed least significant bit first, equal (a + b) mod 2^n.
C3_RippleSum ==
    (Running /\ passes = max_rank(RippleTest.circuit) + 2)
        => pack_bits(graph, RippleTest.s, 0, 0) = (locals.a_ + locals.b_) % (2 ^ NBits)

\* C3 happens: a sum that overflows n bits has been read with a bit set.
C3_Overflowed ==
    /\ Running
    /\ passes = max_rank(RippleTest.circuit) + 2
    /\ locals.a_ + locals.b_ >= 2 ^ NBits
    /\ pack_bits(graph, RippleTest.s, 0, 0) > 0

\* C4: once the full adder has settled, the sum output reads
\* a XOR b XOR c_in and the carry output (a AND b) OR (c_in AND (a XOR b)).
C4_FullAdderTable ==
    (Running /\ passes >= max_rank(FullAdderTest.circuit) + 1)
        => /\ get_1_in(graph, FullAdderTest.s)
                = [value |-> (locals.a_ # locals.b_) # locals.c_in_, panic |-> NoPanic]
           /\ get_1_in(graph, FullAdderTest.c_out)
                = [value |-> (locals.a_ /\ locals.b_)
                                \/ (locals.c_in_ /\ (locals.a_ # locals.b_)),
                   panic |-> NoPanic]

\* C4 happens: the 32 passes of the test have run on (true, true, true) and
\* both outputs read true.
C4_AllOnes ==
    /\ Running
    /\ passes = FullAdderSteps
    /\ locals.a_ /\ locals.b_ /\ locals.c_in_
    /\ get_1_in(graph, FullAdderTest.s).value
    /\ get_1_in(graph, FullAdderTest.c_out).value

\* C5: once the xor circuit has settled, get_1_in(out) is the XOR of the two
\* inputs' current values.
C5_XorOfInputs ==
    (Running /\ passes >= max_rank(SimpleTest.circuit) + 1)
        => get_1_in(graph, SimpleTest.out)
             = [value |-> get_1_in(graph, SimpleTest.a).value
                              # get_1_in(graph, SimpleTest.b).value,
                panic |-> NoPanic]

\* C5 happens: both inputs are true and the settled output reads false.
C5_BothTrue ==
    /\ Running
    /\ passes >= max_rank(SimpleTest.circuit) + 1
    /\ get_1_in(graph, SimpleTest.a).value
    /\ get_1_in(graph, SimpleTest.b).value
    /\ ~get_1_in(graph, SimpleTest.out).value

\* There is a directed path of 1 to k wires from u to v.
RECURSIVE PathWithin(_, _, _, _)
PathWithin(g, u, v, k) ==
    /\ k > 0
    /\ \E i \in DOMAIN g.edges :
          /\ g.edges[i].source = u
          /\ \/ g.edges[i].target = v
             \/ PathWithin(g, g.edges[i].target, v, k - 1)

\* C11: after every construction call that returns (a gate constructor,
\* half_adder, full_adder or ripple_carry, with any existing handles) the
\* graph has no directed cycle.
C11_Acyclic ==
    (Running /\ locals.op # "none")
        => \A n \in node_indices(graph) : ~PathWithin(graph, n, n, node_count(graph))

\* C11 happens: a ripple_carry of two bits has returned on a circuit that an
\* earlier call built.
C11_RippleOnTop ==
    /\ Running
    /\ locals.calls = 2
    /\ locals.op = "ripple_carry"
    /\ node_count(graph) >= node_count(locals.before) + 7
    /\ node_count(locals.before) >= 3

\* The number of times n occurs in the sequence seq.
Occurrences(seq, n) == Cardinality({i \in DOMAIN seq : seq[i] = n})

\* C12: flip_ranks(ranks()) has max rank + 1 layers, every node occurs
\* exactly once, in the layer whose index is its rank, every layer is in
\* increasing handle order, and layer 0 is exactly [MetaInput].
C12_Layers ==
    (Running /\ locals.flipped # <<>>)
        => /\ Len(locals.flipped)
                = Max({locals.ranks[n] : n \in node_indices(graph)}) + 1
           /\ \A r \in DOMAIN locals.flipped :
                 /\ \A n \in node_indices(graph) :
                       Occurrences(locals.flipped[r], n)
                           = IF locals.ranks[n] = r - 1 THEN 1 ELSE 0
                 /\ \A i \in DOMAIN locals.flipped[r] :
                       locals.flipped[r][i] \in node_indices(graph)
                 /\ \A i, j \in DOMAIN locals.flipped[r] :
                       i < j => locals.flipped[r][i] < locals.flipped[r][j]
           /\ locals.flipped[1] = <<meta_input>>

\* C12 happens: flip_ranks has returned three or more layers, one of them
\* with two nodes.
C12_SharedLayer ==
    /\ Running
    /\ Len(locals.flipped) >= 3
    /\ \E r \in DOMAIN locals.flipped : Len(locals.flipped[r]) >= 2

\* The six gate constructors and the kind of node each adds.
GateCalls == {"add_input", "add_or", "add_xor", "add_and", "add_not", "add_output"}

KindOf(op) ==
    CASE op = "add_input"  -> "Input"
      [] op = "add_or"     -> "Or"
      [] op = "add_xor"    -> "Xor"
      [] op = "add_and"    -> "And"
      [] op = "add_not"    -> "Not"
      [] op = "add_output" -> "Output"

\* The predecessors the last call was given; add_input's is MetaInput.
PredArgs == IF locals.op = "add_input" THEN <<meta_input>> ELSE locals.args

\* The last call returned the handle of one new node of its kind and added
\* the given number of wires, each into the new node, from one of the
\* predecessors and carrying false, every predecessor being wired; the
\* nodes and wires there were are as they were.
GateCallEffect(wires) ==
    /\ locals.ret = node_count(locals.before)
    /\ graph.nodes = Append(locals.before.nodes, KindOf(locals.op))
    /\ Len(graph.edges) = Len(locals.before.edges) + wires
    /\ SubSeq(graph.edges, 1, Len(locals.before.edges)) = locals.before.edges
    /\ \A i \in (Len(locals.before.edges) + 1)..Len(graph.edges) :
          /\ graph.edges[i].target = locals.ret
          /\ graph.edges[i].weight = FALSE
          /\ \E k \in DOMAIN PredArgs : graph.edges[i].source = PredArgs[k]
    /\ \A k \in DOMAIN PredArgs :
          \E i \in (Len(locals.before.edges) + 1)..Len(graph.edges) :
              graph.edges[i].source = PredArgs[k]

\* C13 as the specification states it: one new wire per predecessor
\* argument, also when both arguments are the same handle.
C13_OneWirePerArgument ==
    (Running /\ locals.op \in GateCalls) => GateCallEffect(Len(PredArgs))

\* C13: each gate constructor adds one node of its kind and one new wire
\* per distinct predecessor argument, carrying false, and returns the new
\* node's handle; two equal arguments give a single wire.
C13_OneWirePerPredecessor ==
    (Running /\ locals.op \in GateCalls)
        => GateCallEffect(Cardinality({PredArgs[k] : k \in DOMAIN PredArgs}))

\* C13 happens: add_and(a, a) has returned on a circuit that an earlier
\* call built.
C13_SameHandleTwice ==
    /\ Running
    /\ locals.calls = 2
    /\ locals.op = "add_and"
    /\ locals.args[1] = locals.args[2]
    /\ locals.args[1] # meta_input

\* The step is the call set_input(input, value).
SetInputCall(input, value) ==
    /\ Running
    /\ SetResult(set_input(graph, input, value))
    /\ passes' = 0
    /\ UNCHANGED <<order, locals>>

\* C14: set_input(node, value) on an Input node sets the wire from MetaInput
\* to node to value and leaves every node, the set of wires and every other
\* wire's value unchanged, so get_1_in and get_2_in on every other node read
\* what they read before.
C14_SetInputFrame ==
    [][\A input \in node_indices(graph), value \in BOOLEAN :
          (Kind(graph, input) = "Input" /\ SetInputCall(input, value))
              => /\ panicked' = NoPanic
                 /\ graph'.nodes = graph.nodes
                 /\ Len(graph'.edges) = Len(graph.edges)
                 /\ \A i \in DOMAIN graph.edges :
                       graph'.edges[i] =
                           IF /\ graph.edges[i].source = meta_input
                              /\ graph.edges[i].target = input
                           THEN [graph.edges[i] EXCEPT !.weight = value]
                           ELSE graph.edges[i]
                 /\ get_1_in(graph', input) = [value |-> value, panic |-> NoPanic]
                 /\ \A n \in node_indices(graph) \ {input} :
                       /\ get_1_in(graph', n) = get_1_in(graph, n)
                       /\ get_2_in(graph', n) = get_2_in(graph, n)]_vars

\* C14 happens: an Input has just been set to true and the wire that leaves
\* it still carries false.
C14_NotYetPropagated ==
    /\ Running
    /\ passes = 0
    /\ \E i, j \in DOMAIN graph.edges :
          /\ graph.edges[i].source = meta_input
          /\ Kind(graph, graph.edges[i].target) = "Input"
          /\ graph.edges[i].weight
          /\ graph.edges[j].source = graph.edges[i].target
          /\ ~graph.edges[j].weight

\* C15: set_input on a node whose kind is not Input fails fatally, on the
\* assertion of the kind, and changes no node and no wire.
C15_NonInputRejected ==
    [][\A input \in node_indices(graph), value \in BOOLEAN :
          (Kind(graph, input) # "Input" /\ SetInputCall(input, value))
              => /\ panicked' = "assertion failed: self.0[input] == Gate::Input"
                 /\ graph' = graph]_vars

\* C15 happens: a set_input call has failed on the assertion, in a circuit
\* that holds gates beside its inputs.
C15_AssertionFailed ==
    /\ panicked = "assertion failed: self.0[input] == Gate::Input"
    /\ \E n \in node_indices(graph) : Kind(graph, n) \in {"Not", "And", "Output"}

\* The handles in seq are nodes added by the last call, in increasing order.
NewAscending(seq) ==
    /\ \A i \in DOMAIN seq :
          /\ seq[i] \in node_indices(graph)
          /\ seq[i] >= node_count(locals.before)
    /\ \A i, j \in DOMAIN seq : i < j => seq[i] < seq[j]

\* C16: ripple_carry(a, b) with arrays of unequal length fails on the length
\* assertion with the circuit as it was before the call; with equal lengths
\* n >= 1 it returns n sum handles and one carry-out handle, all new, the
\* i-th sum handle being the Xor gate that sums a[i] and b[i] (for i > 1
\* through the Xor of a[i] and b[i], with the carry of the lower bits).
C16_RippleCarryContract ==
    locals.op = "ripple_carry" =>
        LET a == locals.args[1]
            b == locals.args[2]
        IN  IF Len(a) # Len(b)
            THEN /\ panicked = "assertion failed: a.len() == b.len()"
                 /\ graph = locals.before
            ELSE Len(a) >= 1 =>
                 /\ panicked = NoPanic
                 /\ Len(locals.ret) = 2
                 /\ LET out == locals.ret[1]
                        c == locals.ret[2]
                    IN  /\ Len(out) = Len(a)
                        /\ NewAscending(Append(out, c))
                        /\ Kind(graph, c) = IF Len(a) = 1 THEN "And" ELSE "Or"
                        /\ \A i \in DOMAIN out : Kind(graph, out[i]) = "Xor"
                        /\ Preds(graph, out[1]) = {a[1], b[1]}
                        /\ \A i \in 2..Len(out) :
                              \E x \in Preds(graph, out[i]) :
                                 /\ Kind(graph, x) = "Xor"
                                 /\ Preds(graph, x) = {a[i], b[i]}
                                 /\ x > out[i - 1]

\* C16 happens: ripple_carry was called on a circuit with a gate in it, with
\* one handle in a and two in b.
C16_UnequalLengths ==
    /\ locals.op = "ripple_carry"
    /\ locals.calls = 2
    /\ Len(locals.args[1]) = 1
    /\ Len(locals.args[2]) = 2
    /\ panicked # NoPanic

\* The gates of g whose number of incoming wires is not the arity of their
\* kind.
Malformed(g) ==
    {n \in node_indices(g) :
        \/ Kind(g, n) \in {"And", "Or", "Xor"} /\ Len(incoming(g, n)) # 2
        \/ Kind(g, n) \in {"Input", "Output", "Not"} /\ Len(incoming(g, n)) # 1}

\* The results of add_and(a, a), add_or(a, a) and add_xor(a, a).
SameHandleGates(a) == {add_and(graph, a, a), add_or(graph, a, a), add_xor(graph, a, a)}

\* C17: add_and(a, a), add_or(a, a) and add_xor(a, a) return, leaving a gate
\* with a number of incoming wires that is not its arity; get_1_in and
\* get_2_in on such a gate fail fatally, and so does every
\* update_signals_once pass over a circuit that holds one.
C17_ArityCheckedAtEvaluation ==
    /\ [](\A n \in Malformed(graph) :
             /\ get_1_in(graph, n).panic # NoPanic
             /\ get_2_in(graph, n).panic # NoPanic)
    /\ [][\A a \in node_indices(graph) : \A r \in SameHandleGates(a) :
             (Running /\ CanGrow(1) /\ Construct(r))
                 => /\ panicked' = NoPanic
                    /\ r.ret \in Malformed(graph')]_vars
    /\ [][(UpdateSignalsOnce /\ Malformed(graph) # {}) => panicked' # NoPanic]_vars

\* C17 happens: a pass has failed on a gate built from the same handle twice.
C17_PassFailed ==
    /\ panicked = "gate should have precisely 2 inputs"
    /\ Malformed(graph) # {}

\* C18: after set_bit(v, b, on) the word has bit b equal to on and every
\* other bit as it was in v.
C18_BitSetOrCleared ==
    locals.op = "set_bit" =>
        \A i \in BitIndices :
            get_bit(locals.word, i) = IF i = locals.b THEN locals.on
                                      ELSE get_bit(locals.v, i)

\* C19 as stated: a pass that returns has written every wire of the circuit
\* exactly once.
C19_EveryWireOnce ==
    [][(UpdateSignalsOnce /\ panicked' = NoPanic)
          => \A i \in DOMAIN graph.edges :
                times_written(graph, update_order(graph), i) = 1]_vars

\* C19: a pass writes no wire that leaves MetaInput and no wire twice, and a
\* pass that returns has written every wire that leaves another node exactly
\* once.
C19_EveryGateWireOnce ==
    [][UpdateSignalsOnce
          => \A i \in DOMAIN graph.edges :
                LET n == times_written(graph, update_order(graph), i)
                IN  /\ n <= 1
                    /\ graph.edges[i].source = meta_input => n = 0
                    /\ (graph.edges[i].source # meta_input /\ panicked' = NoPanic)
                           => n = 1]_vars

\* C19 happens: a pass has returned on a circuit with a wire that leaves
\* MetaInput and a wire that leaves a gate.
C19_PassOverBothWires ==
    /\ Running
    /\ passes >= 1
    /\ \E i, j \in DOMAIN graph.edges :
          /\ graph.edges[i].source = meta_input
          /\ graph.edges[j].source # meta_input

\* C20: a pass of update_signals_once, whether it returns or fails, leaves
\* every wire whose source is MetaInput in place and carrying the value it
\* carried, so the values given with set_input are still read at the inputs.
C20_MetaInputWiresKept ==
    [][UpdateSignalsOnce
          => /\ Len(graph'.edges) = Len(graph.edges)
             /\ \A i \in DOMAIN graph.edges :
                   graph.edges[i].source = meta_input
                       => graph'.edges[i] = graph.edges[i]]_vars

\* C20 happens: as many passes as the circuit has layers have run since an
\* input was set to true, its wire from MetaInput still carries true, and a
\* gate behind it has been written.
C20_AssignmentSurvived ==
    /\ Running
    /\ passes = max_rank(graph) + 1
    /\ \E i, j \in DOMAIN graph.edges :
          /\ graph.edges[i].source = meta_input
          /\ graph.edges[i].weight
          /\ graph.edges[j].source = graph.edges[i].target
          /\ graph.edges[j].weight

\* The results of the six gate constructors on the circuit, for every choice
\* of existing handles.
GateResults ==
    {add_input(graph)}
        \cup UNION {{add_or(graph, a, b), add_xor(graph, a, b), add_and(graph, a, b)} :
                       a \in node_indices(graph), b \in node_indices(graph)}
        \cup UNION {{add_not(graph, a), add_output(graph, a)} : a \in node_indices(graph)}

\* Every node of g is in h with its kind, and every wire of g is in h at its
\* place with its ends.
SameShape(g, h) ==
    /\ Len(h.nodes) >= Len(g.nodes)
    /\ \A n \in node_indices(g) : Kind(h, n) = Kind(g, n)
    /\ Len(h.edges) >= Len(g.edges)
    /\ \A i \in DOMAIN g.edges :
          /\ h.edges[i].source = g.edges[i].source
          /\ h.edges[i].target = g.edges[i].target

\* C21: a gate constructor returns, leaves every node there was with its
\* kind and every wire there was with its ends and its value, and returns a
\* handle that is not MetaInput and was no handle of the circuit before (the
\* adders are sequences of such calls); set_input and update_signals_once
\* leave as many nodes and wires as there were, with their kinds and ends.
C21_OnlyGrows ==
    /\ [][(Running /\ CanGrow(1) /\ passes' = 0) =>
          \A r \in GateResults :
             Construct(r)
                 => /\ panicked' = NoPanic
                    /\ SameShape(graph, graph')
                    /\ \A i \in DOMAIN graph.edges :
                          graph'.edges[i].weight = graph.edges[i].weight
                    /\ r.ret # meta_input
                    /\ r.ret \notin node_indices(graph)
                    /\ r.ret \in node_indices(graph')]_vars
    /\ [][(SetInput \/ UpdateSignalsOnce)
             => /\ SameShape(graph, graph')
                /\ Len(graph'.nodes) = Len(graph.nodes)
                /\ Len(graph'.edges) = Len(graph.edges)]_vars

\* C21 happens: a gate was added behind a node whose other outgoing wire
\* carries true, and no pass has run since.
C21_GrownAfterPass ==
    /\ Running
    /\ passes = 0
    /\ \E i, j \in DOMAIN graph.edges :
          /\ graph.edges[i].target = node_count(graph) - 1
          /\ ~graph.edges[i].weight
          /\ graph.edges[j].source = graph.edges[i].source
          /\ graph.edges[j].source # meta_input
          /\ graph.edges[j].weight

\* The nodes the kept order holds.
Ordered == {order[k] : k \in DOMAIN order}

\* The wires that leave a gate added since the order was computed.
StaleWires ==
    {i \in DOMAIN graph.edges :
        graph.edges[i].source \notin Ordered \cup {meta_input}}

DisplayedSum ==
    set_bit(pack_bits(graph, RippleTest.s, 0, 0), NBits,
            get_1_in(graph, RippleTest.c).value)

\* C23: once the n-bit adder has settled on a and b, the carry output reads
\* bit n of a + b, and the sum outputs with the carry as bit n are a + b.
C23_CarryIsBitN ==
    (Running /\ passes >= max_rank(RippleTest.circuit))
        => /\ get_1_in(graph, RippleTest.c)
                = [value |-> get_bit(locals.a_ + locals.b_, NBits), panic |-> NoPanic]
           /\ DisplayedSum = locals.a_ + locals.b_

\* C23 happens: the adder has settled on a sum that needs the carry bit.
C23_CarrySet ==
    /\ Running
    /\ passes >= max_rank(RippleTest.circuit)
    /\ locals.a_ + locals.b_ > 2 ^ NBits
    /\ get_1_in(graph, RippleTest.c).value

\* The value wire i of g carries once the circuit has settled on the values
\* of the wires that leave MetaInput: the function of its source gate, of the
\* settled values of the wires into that gate.
RECURSIVE SettledValue(_, _)
SettledValue(g, i) ==
    LET gate == g.edges[i].source
        ins == incoming(g, gate)
        in1 == SettledValue(g, ins[1])
        in2 == SettledValue(g, ins[2])
    IN  CASE Kind(g, gate) = "MetaInput" -> g.edges[i].weight
          [] Kind(g, gate) = "Or"        -> in1 \/ in2
          [] Kind(g, gate) = "Xor"       -> in1 # in2
          [] Kind(g, gate) = "And"       -> in1 /\ in2
          [] Kind(g, gate) = "Not"       -> ~in1
          [] OTHER                       -> in1

\* C24: k passes with the order of update_order() after the last set_input
\* or construction call leave every wire whose source has rank at most k
\* with its settled value; after max rank passes every wire has it.
C24_SettledByRank ==
    Running =>
        LET rank == ranks(graph)
        IN  /\ \A i \in DOMAIN graph.edges :
                  rank[graph.edges[i].source] <= passes
                      => graph.edges[i].weight = SettledValue(graph, i)
            /\ passes >= max_rank(graph)
                  => \A i \in DOMAIN graph.edges :
                        graph.edges[i].weight = SettledValue(graph, i)

\* C24 happens: after one pass a wire that leaves a node of rank 1 carries
\* its settled value, true, and a wire that leaves a node of rank 2 does not
\* carry its settled value yet.
C24_PartlySettled ==
    /\ Running
    /\ passes = 1
    /\ \E i, j \in DOMAIN graph.edges :
          /\ ranks(graph)[graph.edges[i].source] = 1
          /\ graph.edges[i].weight
          /\ ranks(graph)[graph.edges[j].source] = 2
          /\ graph.edges[j].weight # SettledValue(graph, j)

\* C25: once a pass over the order of update_order() has run, and through
\* every later set_input and update_signals_once call, the wires that leave
\* the same node other than MetaInput all carry the same value.
C25_OutgoingWiresAgree ==
    locals.evaluated =>
        \A i, j \in DOMAIN graph.edges :
            (graph.edges[i].source = graph.edges[j].source
                /\ graph.edges[i].source # meta_input)
                    => graph.edges[i].weight = graph.edges[j].weight

\* C25 happens: passes have run, an input has been set since, and a node
\* drives two wires that carry true.
C25_FanOutTrue ==
    /\ Running
    /\ locals.evaluated
    /\ passes = 0
    /\ \E i, j \in DOMAIN graph.edges :
          /\ i # j
          /\ graph.edges[i].source = graph.edges[j].source
          /\ graph.edges[i].source # meta_input
          /\ graph.edges[i].weight
          /\ graph.edges[j].weight

\* C26: whenever the MousePressed handler runs, the node it passes to
\* set_input, model.selected, is an Input, and the handler returns.
C26_PressedNodeIsInput ==
    [][MousePressed
          => /\ Kind(graph, locals.selected) = "Input"
             /\ panicked' = NoPanic]_vars

====
